---- MODULE Spec2Model ----
(***************************************************************************)
(* Model of jczaja/investment-forecasting: the dividend screening stages   *)
(* of src/divanalysis/main.rs, the dividend metric calculators of          *)
(* src/lib.rs, the sheet ingestion (load_list) of src/lib.rs and the       *)
(* report (print_summary, main) of src/divanalysis/main.rs.                *)
(*                                                                         *)
(* Numbers.  An f64 is modelled as an exact extended rational [n, d] with  *)
(* d >= 0 in lowest terms: d > 0 is the finite value n/d, 1/0 is +inf,     *)
(* -1/0 is -inf and 0/0 is NaN.  Rounding and the sign of zero are not     *)
(* modelled.  An Option<T> is a sequence of length 0 (None) or 1 (Some).   *)
(***************************************************************************)
EXTENDS Integers, Sequences, FiniteSets

VARIABLES
    fn,       \* screening: the stage function under call
    df,       \* screening: the DataFrame handed to the stage
    args,     \* screening: the numeric arguments of the call
    pc,       \* screening: "idle" | "ready" | "done" | "redone"
    result,   \* screening: the Result returned by the last application
    first,    \* screening: the Result of the first application, kept on re-application
    cfn,      \* calculators: the function under call
    cargs,    \* calculators: its arguments
    cpc,      \* calculators: "idle" | "ready" | "done"
    cres,     \* calculators: the Result returned
    categories, \* load_list: the header row (third row of the sheet), once read
    columns,  \* load_list: Vec<&str> of column names
    fseries,  \* load_list: HashMap<usize, Vec<Option<f64>>>
    sseries,  \* load_list: HashMap<usize, Vec<Option<&str>>>
    sheet,    \* load_list: the data rows iterated so far
    row,      \* load_list: the cells of the current row iterated so far
    lpc,      \* load_list: "idle" | "start" | "rows" | "done"
    lres,     \* load_list: what the call ended with
    data,     \* main: the table load_list returned
    company,  \* main: args.company, the symbols asked for on the command line
    next,     \* main: index of the symbol try_for_each looks up next
    stdout,   \* main: the summary tables printed so far
    pcall,    \* main: arguments of the last print_summary call
    pres,     \* main: the Result of the last print_summary call
    mpc,      \* main: "idle" | "start" | "lookup" | "done"
    mres      \* main: what the run ended with

screenVars == <<fn, df, args, pc, result, first>>

calcVars == <<cfn, cargs, cpc, cres>>

loadVars == <<categories, columns, fseries, sseries, sheet, row, lpc, lres>>

mainVars == <<data, company, next, stdout, pcall, pres, mpc, mres>>

vars == <<screenVars, calcVars, loadVars, mainVars>>

----------------------------------------------------------------------------
(* Bounds of the model *)

MaxRows == 3

MaxVal == 3

MaxWideRows == 2

MaxHist == 4

MaxFreq == 4

MaxDataRows == 2

MaxMainRows == 2

MaxCompanies == 3

----------------------------------------------------------------------------
(* f64 arithmetic, as exact extended rationals *)

Abs(x) == IF x < 0 THEN -x ELSE x

Sign(x) == IF x < 0 THEN -1 ELSE IF x > 0 THEN 1 ELSE 0

RECURSIVE GCD(_, _)
GCD(a, b) == IF b = 0 THEN a ELSE GCD(b, a % b)

Q(n, d) ==
    IF d = 0 THEN [n |-> Sign(n), d |-> 0]
    ELSE LET s == Sign(d)
             g == GCD(Abs(n), Abs(d))
         IN  [n |-> (s * n) \div g, d |-> (s * d) \div g]

F(i) == Q(i, 1)

NaN == Q(0, 0)

Inf == Q(1, 0)

IsNaN(a) == a.d = 0 /\ a.n = 0

IsFinite(a) == a.d > 0

QMul(a, b) == Q(a.n * b.n, a.d * b.d)

QDiv(a, b) == Q(a.n * b.d, a.d * b.n)

QAdd(a, b) ==
    IF a.d = 0 /\ b.d = 0
    THEN (IF a.n = b.n THEN a ELSE NaN)
    ELSE Q(a.n * b.d + b.n * a.d, a.d * b.d)

QSub(a, b) == QAdd(a, Q(-b.n, b.d))

\* a < b on f64: false as soon as one side is NaN
QLt(a, b) ==
    /\ ~IsNaN(a)
    /\ ~IsNaN(b)
    /\ IF a.d = 0 /\ b.d = 0 THEN a.n < b.n ELSE a.n * b.d < b.n * a.d

QGt(a, b) == QLt(b, a)

QLe(a, b) == ~IsNaN(a) /\ ~IsNaN(b) /\ ~QLt(b, a)

QGe(a, b) == QLe(b, a)

----------------------------------------------------------------------------
(* Option<T> and Result<T, &str> *)

None == <<>>

Some(x) == <<x>>

IsSome(o) == Len(o) = 1

Unwrap(o) == o[1]

Ok(v) == [ok |-> TRUE, val |-> v]

Err(msg) == [ok |-> FALSE, err |-> msg]

\* no Result yet
Unset == [ok |-> FALSE, err |-> "unset"]

----------------------------------------------------------------------------
(* The DataFrame operations the screening stages use.  A DataFrame is      *)
(* [columns: set of names, rows: sequence of rows], a row being a function *)
(* from the column names to Option values (None is a missing value).       *)

height(d) == Len(d.rows)

\* df.column(name): the values of one column, or an error when it is absent
column(d, name) ==
    IF name \in d.columns
    THEN Ok([i \in 1..height(d) |-> d.rows[i][name]])
    ELSE Err("not found")

\* Series / Series: a missing operand gives a missing quotient
series_div(a, b) ==
    [i \in 1..Len(a) |->
        IF IsSome(a[i]) /\ IsSome(b[i])
        THEN Some(QDiv(Unwrap(a[i]), Unwrap(b[i])))
        ELSE None]

\* the comparisons of a Series with a number: a missing value compares to missing
series_gt(s, x) ==
    [i \in 1..Len(s) |-> IF IsSome(s[i]) THEN Some(QGt(Unwrap(s[i]), x)) ELSE None]

series_gt_eq(s, x) ==
    [i \in 1..Len(s) |-> IF IsSome(s[i]) THEN Some(QGe(Unwrap(s[i]), x)) ELSE None]

series_lt(s, x) ==
    [i \in 1..Len(s) |-> IF IsSome(s[i]) THEN Some(QLt(Unwrap(s[i]), x)) ELSE None]

series_lt_eq(s, x) ==
    [i \in 1..Len(s) |-> IF IsSome(s[i]) THEN Some(QLe(Unwrap(s[i]), x)) ELSE None]

\* mask & mask2 on boolean columns with missing values (three-valued and)
mask_and(m1, m2) ==
    [i \in 1..Len(m1) |->
        IF m1[i] = Some(FALSE) \/ m2[i] = Some(FALSE) THEN Some(FALSE)
        ELSE IF m1[i] = Some(TRUE) /\ m2[i] = Some(TRUE) THEN Some(TRUE)
        ELSE None]

\* a filter that drops only the rows whose mask is false (a missing mask
\* value lets the row through)
filter_keeps_missing(d, mask) ==
    LET keep[i \in 0..height(d)] ==
            IF i = 0 THEN <<>>
            ELSE IF mask[i] # Some(FALSE) THEN Append(keep[i - 1], d.rows[i])
            ELSE keep[i - 1]
    IN  [d EXCEPT !.rows = keep[height(d)]]

\* df.filter(&mask): the rows whose mask is true, in their order; a missing
\* mask value drops the row
filter(d, mask) ==
    LET keep[i \in 0..height(d)] ==
            IF i = 0 THEN <<>>
            ELSE IF mask[i] = Some(TRUE) THEN Append(keep[i - 1], d.rows[i])
            ELSE keep[i - 1]
    IN  [d EXCEPT !.rows = keep[height(d)]]

orderings(n) ==
    {p \in [1..n -> 1..n] : \A i, j \in 1..n : p[i] = p[j] => i = j}

\* The rows are in descending order of column `by`; rows with a missing key
\* stand together at one end.
sorted_descending(rows, by) ==
    /\ \A i, j \in 1..Len(rows) :
          (i < j /\ IsSome(rows[i][by]) /\ IsSome(rows[j][by]))
              => ~QLt(Unwrap(rows[i][by]), Unwrap(rows[j][by]))
    /\ \/ \A i, j \in 1..Len(rows) :
             (i < j /\ ~IsSome(rows[j][by])) => ~IsSome(rows[i][by])
       \/ \A i, j \in 1..Len(rows) :
             (i < j /\ ~IsSome(rows[i][by])) => ~IsSome(rows[j][by])

\* df.sort([by], true, false): descending, maintain_order = false.  The
\* library does not promise the relative order of rows with equal keys, so
\* every descending arrangement of the rows is a possible outcome.
sort(d, by) ==
    IF by \notin d.columns THEN {Err("not found")}
    ELSE {Ok([d EXCEPT !.rows = [i \in 1..height(d) |-> d.rows[p[i]]]]) :
            p \in {q \in orderings(height(d)) :
                     sorted_descending([i \in 1..height(d) |-> d.rows[q[i]]], by)}}

\* .map_err(|_| msg) on every outcome of a sort
map_err(outcomes, msg) ==
    {IF r.ok THEN r ELSE Err(msg) : r \in outcomes}

----------------------------------------------------------------------------
(* The three screening stages.  Each returns the set of Results the call   *)
(* can produce (one per order the sort may leave equal keys in).           *)

\* main.rs:61-69
minimal_accepted_divy(sp500_divy, inflation, min_divy) ==
    LET min_ref_sp500 == QMul(sp500_divy, Q(3, 2))
        floor == IF QGt(min_ref_sp500, inflation) THEN min_ref_sp500 ELSE inflation
    IN  IF QGt(min_divy, floor) THEN min_divy ELSE floor

\* the yield mask with the floor itself admitted (>= where the code has >)
divy_mask_floor_admitted(divy_col, lo, max_divy) ==
    mask_and(series_gt_eq(divy_col, lo), series_lt_eq(divy_col, max_divy))

\* main.rs:75-81
divy_mask(divy_col, lo, max_divy) ==
    mask_and(series_gt(divy_col, lo), series_lt_eq(divy_col, max_divy))

analyze_div_yield(d, sp500_divy, inflation, min_divy, max_divy) ==
    LET divy_col == column(d, "Div Yield")
    IN  IF ~divy_col.ok THEN {Err("Div Yield column does not exist!")}
        ELSE LET mask == divy_mask(divy_col.val,
                                   minimal_accepted_divy(sp500_divy, inflation, min_divy),
                                   max_divy)
             IN  map_err(sort(filter(d, mask), "Div Yield"),
                         "Could not sort along 'Div Yield'")

\* the payout mask with the threshold itself admitted (<= where the code has <)
payout_mask_threshold_admitted(current_div, cf_share, max_threshold) ==
    series_lt_eq(series_div(current_div, cf_share), max_threshold)

\* main.rs:101-103
payout_mask(current_div, cf_share, max_threshold) ==
    series_lt(series_div(current_div, cf_share), max_threshold)

analyze_dividend_payout_rate(d, max_threshold) ==
    IF ~{"Current Div", "CF/Share"} \subseteq d.columns
    THEN {Err("Current Div and/or CF/Share columns do not exist!")}
    ELSE LET mask == payout_mask(column(d, "Current Div").val,
                                 column(d, "CF/Share").val, max_threshold)
         IN  map_err(sort(filter(d, mask), "Div Yield"),
                     "Could not sort along 'Div Yield'")

min_div_growth_5y_to_10y_ratio == 1

\* the growth mask with the bounds themselves refused (> where the code has >=)
growth_mask_strict(dgr1, dgr5, dgr10, min_growth_rate) ==
    mask_and(series_gt(series_div(dgr5, dgr10), F(min_div_growth_5y_to_10y_ratio)),
             series_gt(dgr1, min_growth_rate))

\* main.rs:120-126
growth_mask(dgr1, dgr5, dgr10, min_growth_rate) ==
    mask_and(series_gt_eq(series_div(dgr5, dgr10), F(min_div_growth_5y_to_10y_ratio)),
             series_gt_eq(dgr1, min_growth_rate))

analyze_div_growth(d, min_growth_rate) ==
    IF ~{"DGR 1Y", "DGR 3Y", "DGR 5Y", "DGR 10Y"} \subseteq d.columns
    THEN {Err("DGR (dividend growth) columns do not exist!")}
    ELSE LET mask == growth_mask(column(d, "DGR 1Y").val, column(d, "DGR 5Y").val,
                                 column(d, "DGR 10Y").val, min_growth_rate)
         IN  map_err(sort(filter(d, mask), "DGR 1Y"),
                     "Could not sort along 'DGR 1Y'")

----------------------------------------------------------------------------
(* The report: print_summary and main of divanalysis/main.rs.  What        *)
(* println! writes is modelled as the table it is given.                   *)

\* Series.equal(text): a missing value compares to missing
series_equal(s, x) ==
    [i \in 1..Len(s) |-> IF IsSome(s[i]) THEN Some(Unwrap(s[i]) = x) ELSE None]

\* Series * number
series_mul(s, x) ==
    [i \in 1..Len(s) |-> IF IsSome(s[i]) THEN Some(QMul(Unwrap(s[i]), x)) ELSE None]

\* df.select(cols): the named columns, or an error when one is absent
select(d, cols) ==
    IF cols \subseteq d.columns
    THEN Ok([columns |-> cols,
             rows |-> [i \in 1..height(d) |-> [c \in cols |-> d.rows[i][c]]]])
    ELSE Err("not found")

\* df.with_column(series) for a series of the height of df
with_column(d, name, s) ==
    [columns |-> d.columns \cup {name},
     rows |-> [i \in 1..height(d) |->
                 [c \in d.columns \cup {name} |->
                     IF c = name THEN s[i] ELSE d.rows[i][c]]]]

\* The outcome of one call: res is the Result returned (or the panic), out
\* the table printed, if one was.
print_summary(d, symbol) ==
    LET dfs == IF IsSome(symbol)
               THEN IF "Symbol" \in d.columns
                    THEN Ok(filter(d, series_equal(column(d, "Symbol").val,
                                                   Unwrap(symbol))))
                    ELSE Err("Error: Unable to get Symbol")
               ELSE Ok(d)
    IN  IF ~dfs.ok THEN [res |-> dfs, out |-> None]
        ELSE IF height(dfs.val) = 0
        THEN [res |-> Err("Company symbol not present in selected List"), out |-> None]
        ELSE LET selected_df ==
                     select(dfs.val,
                            {"Symbol", "Company", "Current Div", "Div Yield", "Price"})
             IN  IF ~selected_df.ok
                 THEN [res |-> Err("Unable to select mentioned columns!"), out |-> None]
                 ELSE IF "Annualized" \notin dfs.val.columns
                 THEN [res |-> [ok |-> FALSE, panic |-> "No \"Current Div\" column"],
                       out |-> None]
                 ELSE IF "CF/Share" \notin dfs.val.columns
                 THEN [res |-> [ok |-> FALSE, panic |-> "No \"CF/Share\" column"],
                       out |-> None]
                 ELSE LET rate == series_mul(
                                      series_div(column(dfs.val, "Annualized").val,
                                                 column(dfs.val, "CF/Share").val),
                                      F(100))
                      IN  [res |-> Ok(<<>>),
                           out |-> Some(with_column(selected_df.val,
                                                    "Div Payout Rate[%]", rate))]

\* main without --company: the three stages, each `?`, then the summary of
\* what is left.  call is the print_summary call made, if the run got there.
main_screen(d, a) ==
    UNION {
        IF ~r1.ok THEN {[res |-> r1, out |-> None, call |-> None]}
        ELSE UNION {
            IF ~r2.ok THEN {[res |-> r2, out |-> None, call |-> None]}
            ELSE {IF ~r3.ok THEN [res |-> r3, out |-> None, call |-> None]
                  ELSE LET p == print_summary(r3.val, None)
                       IN  [res |-> p.res, out |-> p.out,
                            call |-> Some([df |-> r3.val, symbol |-> None])] :
                    r3 \in analyze_div_growth(r2.val, a.min_div_growth_rate)} :
              r2 \in analyze_dividend_payout_rate(
                         r1.val, QDiv(a.max_div_payout_rate, F(100)))} :
          r1 \in analyze_div_yield(d, a.sp500_divy, a.inflation,
                                   a.min_div_yield, a.max_div_yield)}

\* a loop over the symbols that goes on to the next symbol after a failure
try_for_each_skips_failure(d, syms, i, out) ==
    LET p == print_summary(d, Some(syms[i]))
    IN  [next |-> i + 1, stdout |-> out \o p.out, pc |-> "lookup",
         res |-> Unset, pres |-> p.res]

\* One turn of args.company.iter().try_for_each(|symbol| print_summary(..)):
\* the summary of syms[i]; an error ends the loop and is what `?` returns.
try_for_each_step(d, syms, i, out) ==
    LET p == print_summary(d, Some(syms[i]))
    IN  IF p.res.ok
        THEN [next |-> i + 1, stdout |-> out \o p.out, pc |-> "lookup",
              res |-> Unset, pres |-> p.res]
        ELSE [next |-> i, stdout |-> out \o p.out, pc |-> "done",
              res |-> p.res, pres |-> p.res]

----------------------------------------------------------------------------
(* The dividend metric calculators of lib.rs.  A dividend history is a     *)
(* sequence of (pay_date, cash_amount) pairs.                              *)

calculate_payout_ratio(div, num_shares, net_value) ==
    LET payout_rate == QMul(QDiv(QMul(div, num_shares), net_value), F(100))
    IN  Ok(payout_rate)

\* the short-history branch taking the oldest payment instead of the latest
calculate_divy_oldest(div_history, share_price, frequency) ==
    IF Len(div_history) < frequency
    THEN IF Len(div_history) = 0 THEN Err("Unable to get dividend value")
         ELSE Ok(QMul(QMul(QDiv(div_history[1][2], share_price), F(frequency)), F(100)))
    ELSE LET end == Len(div_history)
             annual_dividends == SubSeq(div_history, end - frequency + 1, end)
             fold[i \in 0..Len(annual_dividends)] ==
                 IF i = 0 THEN F(0) ELSE QAdd(fold[i - 1], annual_dividends[i][2])
         IN  Ok(QMul(QDiv(fold[Len(annual_dividends)], share_price), F(100)))

calculate_divy(div_history, share_price, frequency) ==
    IF Len(div_history) < frequency
    THEN \* div_history.iter().rev().next().ok_or(..)?
         IF Len(div_history) = 0 THEN Err("Unable to get dividend value")
         ELSE LET div_info == div_history[Len(div_history)]
              IN  Ok(QMul(QMul(QDiv(div_info[2], share_price), F(frequency)), F(100)))
    ELSE LET end == Len(div_history)
             \* div_history.get(end - frequency..end): in range here, as frequency <= end
             annual_dividends == SubSeq(div_history, end - frequency + 1, end)
             fold[i \in 0..Len(annual_dividends)] ==
                 IF i = 0 THEN F(0) ELSE QAdd(fold[i - 1], annual_dividends[i][2])
             annualized_div == fold[Len(annual_dividends)]
         IN  Ok(QMul(QDiv(annualized_div, share_price), F(100)))

calculate_dgr(div_history) ==
    IF Len(div_history) = 0 THEN Err("No dividends samples!")
    ELSE LET \* the for_each over the entries after the first: [average, count, prev_val]
             step[i \in 1..Len(div_history)] ==
                 IF i = 1
                 THEN [average |-> F(0), count |-> 0, prev_val |-> div_history[1][2]]
                 ELSE LET new_val == div_history[i][2]
                          s == step[i - 1]
                      IN  [average |-> QAdd(s.average,
                                            QMul(QSub(QDiv(new_val, s.prev_val), F(1)),
                                                 F(100))),
                           count |-> s.count + 1,
                           prev_val |-> new_val]
             end == step[Len(div_history)]
         IN  Ok(QDiv(end.average, F(end.count)))

----------------------------------------------------------------------------
(* load_list of lib.rs.  A cell is [kind, v]: kind is the calamine DataType *)
(* variant ("Bool" stands for every variant the match leaves to `_`), v the *)
(* payload: the number of a Float or DateTime, the text of a String (0 is   *)
(* the empty text "").  HashMap keys are the 0-based column indices.        *)

Str(v) == [s |-> v]

Blended == [s |-> "Blended"]

\* lib.rs:45-52, one header cell pushed on `columns`
push_category(cols, c) ==
    IF c.kind = "String" THEN Append(cols, Str(c.v))
    ELSE IF c.kind = "Empty" THEN Append(cols, Blended)
    ELSE cols

RECURSIVE header_columns(_, _)
header_columns(cats, cols) ==
    IF cats = <<>> THEN cols
    ELSE header_columns(Tail(cats), push_category(cols, Head(cats)))

contains_key(map, i) == i \in DOMAIN map

\* vf.push(x) on the entry of key i
push(map, i, x) == [map EXCEPT ![i] = Append(@, x)]

\* map.insert(i, vec![x])
insert(map, i, x) == [k \in DOMAIN map \cup {i} |-> IF k = i THEN <<x>> ELSE map[k]]

\* lib.rs:59-121: the match on one data cell at column index i; returns the
\* two maps after it
process_cell(fs, ss, i, cell) ==
    CASE cell.kind \in {"Float", "DateTime"} ->
            IF contains_key(fs, i)
            THEN [f |-> push(fs, i, Some(F(cell.v))), s |-> ss]
            ELSE [f |-> insert(fs, i, Some(F(cell.v))), s |-> ss]
      [] cell.kind = "String" ->
            IF contains_key(ss, i)
            THEN [f |-> fs, s |-> push(ss, i, Some(Str(cell.v)))]
            ELSE IF cell.v # 0
            THEN [f |-> fs, s |-> insert(ss, i, Some(Str(cell.v)))]
            ELSE IF contains_key(fs, i)
            THEN [f |-> push(fs, i, None), s |-> ss]
            ELSE [f |-> fs, s |-> ss]
      [] cell.kind = "Empty" ->
            IF contains_key(fs, i)
            THEN [f |-> push(fs, i, None), s |-> ss]
            ELSE IF contains_key(ss, i)
            THEN [f |-> fs, s |-> push(ss, i, None)]
            ELSE [f |-> fs, s |-> insert(ss, i, None)]
      [] OTHER -> [f |-> fs, s |-> ss]

\* the orders in which a HashMap can hand out its keys
key_orders(map) ==
    {o \in [1..Cardinality(DOMAIN map) -> DOMAIN map] :
        \A a, b \in 1..Cardinality(DOMAIN map) : o[a] = o[b] => a = b}

\* lib.rs:126-134: the Series of one map, in one of its iteration orders.
\* idx records the key the Series was built from.
series_of(map, order, cols, dtype) ==
    [a \in 1..Len(order) |->
        [name |-> cols[order[a] + 1], idx |-> order[a], dtype |-> dtype,
         values |-> map[order[a]]]]

\* DataFrame::new: the Series must have one length and distinct names
DataFrame_new(df_series) ==
    IF /\ \A a, b \in 1..Len(df_series) :
             Len(df_series[a].values) = Len(df_series[b].values)
       /\ \A a, b \in 1..Len(df_series) :
             df_series[a].name = df_series[b].name => a = b
    THEN Ok(df_series)
    ELSE Err("Error: Could not create DataFrame")

\* lib.rs:125-138: the outcomes of building the DataFrame.  columns[*k] panics
\* when a key has no name.
build_dataframe(cols, fs, ss) ==
    IF \E k \in DOMAIN fs \cup DOMAIN ss : k >= Len(cols)
    THEN {[ok |-> FALSE, panic |-> "index out of bounds"]}
    ELSE {DataFrame_new(series_of(fs, fo, cols, "f64") \o series_of(ss, so, cols, "str")) :
            fo \in key_orders(fs), so \in key_orders(ss)}

----------------------------------------------------------------------------
(* Inputs of the screening calls *)

Symbols == <<"ABM", "INTC", "CAT", "KO", "PG", "MMM">>

\* a DataFrame over `cols` whose i-th row has Symbol Symbols[i] and the values vals[i]
MkFrame(cols, vals) ==
    [columns |-> cols \cup {"Symbol"},
     rows |-> [i \in 1..Len(vals) |->
                 [c \in cols \cup {"Symbol"} |->
                     IF c = "Symbol" THEN Some(Symbols[i]) ELSE vals[i][c]]]]

OptVals(S) == {None} \cup {Some(F(v)) : v \in S}

RowsUpTo(n, RowSet) == UNION {[1..k -> RowSet] : k \in 0..n}

\* as in test_analyze_divy: Symbol and Div Yield
YieldFrames ==
    {MkFrame({"Div Yield"}, vals) :
        vals \in RowsUpTo(MaxRows, [{"Div Yield"} -> OptVals(0..MaxVal)])}

YieldArgs ==
    [sp500_divy : {F(0), F(1)}, inflation : {F(1), F(2)},
     min_divy : {F(0), F(2)}, max_divy : {F(1), F(3)}]

\* as in test_analyze_divy_dpy: Symbol, Div Yield, Current Div, CF/Share
PayoutFrames ==
    {MkFrame({"Div Yield", "Current Div", "CF/Share"}, vals) :
        vals \in RowsUpTo(MaxWideRows,
                    {r \in [{"Div Yield", "Current Div", "CF/Share"} -> OptVals(0..2)] :
                        /\ r["Div Yield"] # Some(F(0))
                        /\ r["CF/Share"] # Some(F(1))})}

\* max_div_payout_rate / 100.0 (main.rs:190)
PayoutArgs == [max_threshold : {Q(25, 100), Q(50, 100)}]

\* as in test_analyze_div_growth: Symbol and the four DGR columns
GrowthFrames ==
    {MkFrame({"DGR 1Y", "DGR 3Y", "DGR 5Y", "DGR 10Y"}, vals) :
        vals \in RowsUpTo(MaxWideRows,
                    {r \in [{"DGR 1Y", "DGR 3Y", "DGR 5Y", "DGR 10Y"} -> OptVals(0..2)] :
                        /\ r["DGR 3Y"] = Some(F(1))
                        /\ r["DGR 1Y"] # Some(F(0))
                        /\ r["DGR 5Y"] # Some(F(0))
                        /\ r["DGR 10Y"] # Some(F(1))})}

GrowthArgs == [min_growth_rate : {F(1), F(2)}]

\* a DataFrame without the columns the stages read
BareFrame == MkFrame({"Price"}, <<[c \in {"Price"} |-> Some(F(1))]>>)

----------------------------------------------------------------------------
(* Screening: a stage is called on (df, args); its output can be handed    *)
(* to the same stage again with the same arguments.                        *)

apply(f, d, a) ==
    CASE f = "analyze_div_yield" ->
            analyze_div_yield(d, a.sp500_divy, a.inflation, a.min_divy, a.max_divy)
      [] f = "analyze_dividend_payout_rate" ->
            analyze_dividend_payout_rate(d, a.max_threshold)
      [] f = "analyze_div_growth" ->
            analyze_div_growth(d, a.min_growth_rate)

CalcIdle == cfn = "none" /\ cargs = <<>> /\ cpc = "idle" /\ cres = Unset

EmptyMap == [k \in {} |-> <<>>]

LoadIdle ==
    /\ categories = <<>> /\ columns = <<>> /\ fseries = EmptyMap /\ sseries = EmptyMap
    /\ sheet = <<>> /\ row = <<>> /\ lpc = "idle" /\ lres = Unset

MainIdle ==
    /\ data = BareFrame /\ company = <<>> /\ next = 0 /\ stdout = <<>>
    /\ pcall = None /\ pres = Unset /\ mpc = "idle" /\ mres = Unset

ScreenIdle ==
    /\ fn = "none" /\ df = BareFrame /\ args = <<>>
    /\ pc = "idle" /\ result = Unset /\ first = Unset

Init ==
    /\ \/ fn = "analyze_div_yield"
          /\ df \in YieldFrames \cup {BareFrame} /\ args \in YieldArgs
       \/ fn = "analyze_dividend_payout_rate"
          /\ df \in PayoutFrames \cup {BareFrame} /\ args \in PayoutArgs
       \/ fn = "analyze_div_growth"
          /\ df \in GrowthFrames \cup {BareFrame} /\ args \in GrowthArgs
    /\ pc = "ready"
    /\ result = Unset
    /\ first = Unset
    /\ CalcIdle
    /\ LoadIdle
    /\ MainIdle

AnalyzeDivYield ==
    /\ pc = "ready" /\ fn = "analyze_div_yield"
    /\ result' \in analyze_div_yield(df, args.sp500_divy, args.inflation,
                                     args.min_divy, args.max_divy)
    /\ pc' = "done"
    /\ UNCHANGED <<fn, df, args, first, calcVars, loadVars, mainVars>>

AnalyzeDividendPayoutRate ==
    /\ pc = "ready" /\ fn = "analyze_dividend_payout_rate"
    /\ result' \in analyze_dividend_payout_rate(df, args.max_threshold)
    /\ pc' = "done"
    /\ UNCHANGED <<fn, df, args, first, calcVars, loadVars, mainVars>>

AnalyzeDivGrowth ==
    /\ pc = "ready" /\ fn = "analyze_div_growth"
    /\ result' \in analyze_div_growth(df, args.min_growth_rate)
    /\ pc' = "done"
    /\ UNCHANGED <<fn, df, args, first, calcVars, loadVars, mainVars>>

\* the stage applied to its own output, with the same arguments
Reapply ==
    /\ pc = "done" /\ result.ok
    /\ first' = result
    /\ result' \in apply(fn, result.val, args)
    /\ pc' = "redone"
    /\ UNCHANGED <<fn, df, args, calcVars, loadVars, mainVars>>

Next == AnalyzeDivYield \/ AnalyzeDividendPayoutRate \/ AnalyzeDivGrowth \/ Reapply

Spec == Init /\ [][Next]_vars

----------------------------------------------------------------------------
(* Calculators: one call of one of the three functions on drawn arguments  *)

Dates == <<"2023-01-01", "2023-04-01", "2023-07-01", "2023-11-01", "2024-01-01",
           "2024-04-01">>

Amounts == {F(0), Q(1, 2), F(1), F(2)}

\* chronologically ordered histories of at most MaxHist payments
Histories ==
    {[i \in 1..Len(a) |-> <<Dates[i], a[i]>>] : a \in RowsUpTo(MaxHist, Amounts)}

DivyArgs ==
    [div_history : Histories, share_price : {F(0), F(2), F(100)},
     frequency : 0..MaxFreq]

DgrArgs == [div_history : Histories]

PayoutRatioArgs ==
    [div : {F(0), Q(1, 2), F(1)}, num_shares : {F(0), F(100)},
     net_value : {F(0), F(200), F(-200)}]

CalcInit ==
    /\ ScreenIdle
    /\ LoadIdle
    /\ MainIdle
    /\ \/ cfn = "calculate_divy" /\ cargs \in DivyArgs
       \/ cfn = "calculate_dgr" /\ cargs \in DgrArgs
       \/ cfn = "calculate_payout_ratio" /\ cargs \in PayoutRatioArgs
    /\ cpc = "ready"
    /\ cres = Unset

CalculateDivy ==
    /\ cpc = "ready" /\ cfn = "calculate_divy"
    /\ cres' = calculate_divy(cargs.div_history, cargs.share_price, cargs.frequency)
    /\ cpc' = "done"
    /\ UNCHANGED <<cfn, cargs, screenVars, loadVars, mainVars>>

CalculateDgr ==
    /\ cpc = "ready" /\ cfn = "calculate_dgr"
    /\ cres' = calculate_dgr(cargs.div_history)
    /\ cpc' = "done"
    /\ UNCHANGED <<cfn, cargs, screenVars, loadVars, mainVars>>

CalculatePayoutRatio ==
    /\ cpc = "ready" /\ cfn = "calculate_payout_ratio"
    /\ cres' = calculate_payout_ratio(cargs.div, cargs.num_shares, cargs.net_value)
    /\ cpc' = "done"
    /\ UNCHANGED <<cfn, cargs, screenVars, loadVars, mainVars>>

CalcNext == CalculateDivy \/ CalculateDgr \/ CalculatePayoutRatio

CalcSpec == CalcInit /\ [][CalcNext]_vars

----------------------------------------------------------------------------
(* load_list on a sheet that has its two banner rows and a header row: the  *)
(* header row is read, then the data cells one by one in row-major order,   *)
(* then the DataFrame is built.                                            *)

HeaderCells ==
    {[kind |-> "String", v |-> "Symbol"], [kind |-> "String", v |-> "Price"],
     [kind |-> "Empty", v |-> ""], [kind |-> "Float", v |-> "1.0"]}

\* header rows of one and of two cells
Headers == [1..1 -> HeaderCells] \cup [1..2 -> HeaderCells]

CellKinds == {"Float", "DateTime", "String", "EmptyString", "Empty", "Bool"}

\* the cell of kind k at data row r, column index i; its payload tells the
\* cells of a column apart
Cell(k, r, i) ==
    CASE k = "EmptyString" -> [kind |-> "String", v |-> 0]
      [] k \in {"Empty", "Bool"} -> [kind |-> k, v |-> 0]
      [] OTHER -> [kind |-> k, v |-> 10 * r + i + 1]

LoadInit ==
    /\ ScreenIdle
    /\ CalcIdle
    /\ MainIdle
    /\ categories = <<>> /\ columns = <<>> /\ fseries = EmptyMap /\ sseries = EmptyMap
    /\ sheet = <<>> /\ row = <<>> /\ lpc = "start" /\ lres = Unset

\* lib.rs:33-53
ReadHeader ==
    /\ lpc = "start"
    /\ \E h \in Headers :
          /\ categories' = h
          /\ columns' = header_columns(h, <<>>)
    /\ lpc' = "rows"
    /\ UNCHANGED <<fseries, sseries, sheet, row, lres, screenVars, calcVars,
                   mainVars>>

\* lib.rs:56-123, one iteration of the inner loop
ProcessCell ==
    /\ lpc = "rows"
    /\ Len(sheet) < MaxDataRows
    /\ \E k \in CellKinds :
          LET i == Len(row)
              cell == Cell(k, Len(sheet) + 1, i)
              maps == process_cell(fseries, sseries, i, cell)
          IN  /\ fseries' = maps.f
              /\ sseries' = maps.s
              /\ IF i + 1 = Len(categories)
                 THEN sheet' = Append(sheet, Append(row, cell)) /\ row' = <<>>
                 ELSE sheet' = sheet /\ row' = Append(row, cell)
    /\ UNCHANGED <<categories, columns, lpc, lres, screenVars, calcVars,
                   mainVars>>

\* lib.rs:125-138, after the last row
BuildDataFrame ==
    /\ lpc = "rows"
    /\ row = <<>>
    /\ lres' \in build_dataframe(columns, fseries, sseries)
    /\ lpc' = "done"
    /\ UNCHANGED <<categories, columns, fseries, sseries, sheet, row, screenVars, calcVars,
                   mainVars>>

LoadNext == ReadHeader \/ ProcessCell \/ BuildDataFrame

LoadSpec == LoadInit /\ [][LoadNext]_vars

----------------------------------------------------------------------------
(* main on a loaded table and a command line: without --company the table  *)
(* is screened and the rest summarised; with --company each symbol is      *)
(* looked up in the unscreened table in turn.                              *)

\* the defaults of the command line
Args ==
    [inflation |-> Q(34, 10), min_div_yield |-> Q(47, 10), max_div_yield |-> F(10),
     min_div_growth_rate |-> F(10), max_div_payout_rate |-> F(75),
     sp500_divy |-> Q(161, 100)]

SheetColumns ==
    {"Symbol", "Company", "Current Div", "Div Yield", "Price", "Annualized",
     "CF/Share", "DGR 1Y", "DGR 3Y", "DGR 5Y", "DGR 10Y"}

\* a row of the sheet, as in the tests of main.rs: its symbol, yield and
\* one-year growth vary
SheetRow(symbol, divy, dgr1y) ==
    [c \in SheetColumns |->
        CASE c = "Symbol" -> symbol
          [] c = "Company" -> Some("Inc.")
          [] c = "Current Div" -> Some(Q(1, 2))
          [] c = "Div Yield" -> Some(divy)
          [] c = "Price" -> Some(F(40))
          [] c = "Annualized" -> Some(F(2))
          [] c = "CF/Share" -> Some(F(10))
          [] c = "DGR 1Y" -> Some(dgr1y)
          [] c = "DGR 3Y" -> Some(F(9))
          [] c = "DGR 5Y" -> Some(F(9))
          [] c = "DGR 10Y" -> Some(F(8))]

\* ABM and KO pass the three stages under Args, INTC fails the yield stage,
\* CAT the growth stage; one row has no symbol
SheetRows ==
    {SheetRow(Some("ABM"), Q(554, 100), F(12)),
     SheetRow(Some("KO"), Q(554, 100), F(12)),
     SheetRow(Some("INTC"), Q(132, 100), F(12)),
     SheetRow(Some("CAT"), F(5), Q(394, 100)),
     SheetRow(None, F(6), F(11))}

\* the table without one of its columns
drop(d, name) ==
    [columns |-> d.columns \ {name},
     rows |-> [i \in 1..height(d) |-> [c \in d.columns \ {name} |-> d.rows[i][c]]]]

OneRowTable ==
    [columns |-> SheetColumns, rows |-> <<SheetRow(Some("ABM"), Q(554, 100), F(12))>>]

MainTables ==
    {[columns |-> SheetColumns, rows |-> rows] : rows \in RowsUpTo(MaxMainRows, SheetRows)}
    \cup {drop(OneRowTable, "Price"), drop(OneRowTable, "Annualized"),
          drop(OneRowTable, "CF/Share"), drop(OneRowTable, "Symbol")}

CompanyLists == RowsUpTo(MaxCompanies, {"ABM", "INTC", "XYZ"})

MainInit ==
    /\ ScreenIdle
    /\ CalcIdle
    /\ LoadIdle
    /\ data \in MainTables
    /\ company \in CompanyLists
    /\ next = 1
    /\ stdout = <<>>
    /\ pcall = None
    /\ pres = Unset
    /\ mpc = "start"
    /\ mres = Unset

\* main.rs:178-200
MainScreen ==
    /\ mpc = "start" /\ Len(company) = 0
    /\ \E o \in main_screen(data, Args) :
          /\ mres' = o.res
          /\ stdout' = stdout \o o.out
          /\ pcall' = o.call
          /\ pres' = IF IsSome(o.call) THEN o.res ELSE pres
    /\ mpc' = "done"
    /\ UNCHANGED <<data, company, next, screenVars, calcVars, loadVars>>

\* main.rs:203-205, one symbol
MainLookup ==
    /\ mpc \in {"start", "lookup"} /\ Len(company) # 0 /\ next <= Len(company)
    /\ LET step == try_for_each_step(data, company, next, stdout)
       IN  /\ next' = step.next
           /\ stdout' = step.stdout
           /\ mpc' = step.pc
           /\ mres' = step.res
           /\ pres' = step.pres
    /\ pcall' = Some([df |-> data, symbol |-> Some(company[next])])
    /\ UNCHANGED <<data, company, screenVars, calcVars, loadVars>>

\* main.rs:207, after the last symbol
MainReturn ==
    /\ mpc = "lookup" /\ next > Len(company)
    /\ mres' = Ok(<<>>)
    /\ mpc' = "done"
    /\ UNCHANGED <<data, company, next, stdout, pcall, pres, screenVars, calcVars,
                   loadVars>>

MainNext == MainScreen \/ MainLookup \/ MainReturn

MainSpec == MainInit /\ [][MainNext]_vars

----------------------------------------------------------------------------
(* Claims about the screening stages (specification Spec) *)

Done(f) == pc = "done" /\ fn = f

RowSet(d) == {d.rows[i] : i \in 1..height(d)}

\* the same rows, none lost, none repeated
SameRowsAs(d, S) == RowSet(d) = S /\ height(d) = Cardinality(S)

DescendingBy(d, by) ==
    \A i, j \in 1..height(d) :
        i < j => QGe(Unwrap(d.rows[i][by]), Unwrap(d.rows[j][by]))

\* max(min_divy, inflation, 1.5 * sp500_divy)
EffMin(a) ==
    LET S == {a.min_divy, a.inflation, QMul(Q(3, 2), a.sp500_divy)}
    IN  CHOOSE m \in S : \A x \in S : QLe(x, m)

\* C1: on a table with a Div Yield column, analyze_div_yield returns exactly the
\* rows with eff_min < Div Yield <= max_divy, eff_min being
\* max(min_divy, inflation, 1.5 * sp500_divy), in descending order of Div Yield.
C1_YieldExactRows ==
    (Done("analyze_div_yield") /\ "Div Yield" \in df.columns) =>
        /\ result.ok
        /\ result.val.columns = df.columns
        /\ SameRowsAs(result.val,
              {r \in RowSet(df) :
                  /\ IsSome(r["Div Yield"])
                  /\ QLt(EffMin(args), Unwrap(r["Div Yield"]))
                  /\ QLe(Unwrap(r["Div Yield"]), args.max_divy)})
        /\ DescendingBy(result.val, "Div Yield")

\* a yield at the floor is refused, a yield at the ceiling is kept, two rows are ordered
C1_Witness ==
    /\ Done("analyze_div_yield") /\ result.ok
    /\ \E r \in RowSet(df) : r["Div Yield"] = Some(EffMin(args))
    /\ \E r \in RowSet(result.val) : r["Div Yield"] = Some(args.max_divy)
    /\ height(result.val) >= 2
    /\ height(df) > height(result.val)

Ratio(r, num, den) == QDiv(Unwrap(r[num]), Unwrap(r[den]))

HasBoth(r, a, b) == IsSome(r[a]) /\ IsSome(r[b])

PayoutColumns == {"Current Div", "CF/Share", "Div Yield"}

GrowthColumns == {"DGR 1Y", "DGR 3Y", "DGR 5Y", "DGR 10Y"}

\* C3: no row returned by analyze_div_growth has DGR 1Y < min_growth_rate or
\* DGR 5Y / DGR 10Y < 1.0, and every input row with DGR 5Y / DGR 10Y >= 1.0 and
\* DGR 1Y >= min_growth_rate is returned.
C3_GrowthBounds ==
    (Done("analyze_div_growth") /\ GrowthColumns \subseteq df.columns) =>
        /\ result.ok
        /\ RowSet(result.val) \subseteq RowSet(df)
        /\ \A r \in RowSet(result.val) :
              /\ IsSome(r["DGR 1Y"]) => ~QLt(Unwrap(r["DGR 1Y"]), args.min_growth_rate)
              /\ HasBoth(r, "DGR 5Y", "DGR 10Y")
                    => ~QLt(Ratio(r, "DGR 5Y", "DGR 10Y"), F(1))
        /\ \A r \in RowSet(df) :
              (/\ IsSome(r["DGR 1Y"]) /\ HasBoth(r, "DGR 5Y", "DGR 10Y")
               /\ QGe(Ratio(r, "DGR 5Y", "DGR 10Y"), F(1))
               /\ QGe(Unwrap(r["DGR 1Y"]), args.min_growth_rate))
                  => r \in RowSet(result.val)

\* a row with DGR 5Y / DGR 10Y = 1 and DGR 1Y = min_growth_rate is kept, another refused
C3_Witness ==
    /\ Done("analyze_div_growth") /\ result.ok
    /\ \E r \in RowSet(result.val) :
          /\ Ratio(r, "DGR 5Y", "DGR 10Y") = F(1)
          /\ r["DGR 1Y"] = Some(args.min_growth_rate)
    /\ \E r \in RowSet(df) \ RowSet(result.val) :
          /\ IsSome(r["DGR 1Y"]) /\ HasBoth(r, "DGR 5Y", "DGR 10Y")
          /\ QLt(Ratio(r, "DGR 5Y", "DGR 10Y"), F(1))

\* the columns the predicate of stage f reads
PredicateColumns(f) ==
    CASE f = "analyze_div_yield" -> {"Div Yield"}
      [] f = "analyze_dividend_payout_rate" -> {"Current Div", "CF/Share"}
      [] f = "analyze_div_growth" -> {"DGR 1Y", "DGR 5Y", "DGR 10Y"}

\* the columns stage f needs to run at all
NeededColumns(f) ==
    CASE f = "analyze_div_yield" -> {"Div Yield"}
      [] f = "analyze_dividend_payout_rate" -> PayoutColumns
      [] f = "analyze_div_growth" -> GrowthColumns

MissingIn(r, cols) == \E c \in cols : ~IsSome(r[c])

\* C4: in each stage, a row with a missing value in a column the stage's predicate
\* reads is never in the output, and the stage does not return an error for it.
C4_MissingValueExcluded ==
    (pc = "done" /\ NeededColumns(fn) \subseteq df.columns) =>
        /\ result.ok
        /\ \A r \in RowSet(result.val) : ~MissingIn(r, PredicateColumns(fn))

\* the input holds a row with a missing predicate value next to a row that passes
C4_Witness ==
    /\ pc = "done" /\ fn = "analyze_dividend_payout_rate" /\ result.ok
    /\ \E r \in RowSet(df) : MissingIn(r, PredicateColumns(fn))
    /\ height(result.val) >= 1

\* C5: analyze_div_yield applied to its own output with the same thresholds
\* returns a table identical to that output, the same rows in the same order.
C5_YieldIdempotent ==
    (pc = "redone" /\ fn = "analyze_div_yield") => result = first

----------------------------------------------------------------------------
(* Claims about the calculators (specification CalcSpec) *)

CalcDone(f) == cpc = "done" /\ cfn = f

Amount(h, i) == h[i][2]

\* the sum of the payments h[from..Len(h)]
RECURSIVE SumFrom(_, _)
SumFrom(h, from) ==
    IF from > Len(h) THEN F(0) ELSE QAdd(Amount(h, from), SumFrom(h, from + 1))

\* C6: for a non-empty history, calculate_divy returns
\* (last_payment * frequency) / price * 100 when the history has fewer entries than
\* frequency, and otherwise (sum of the last `frequency` payments) / price * 100.
C6_DivyFormula ==
    (CalcDone("calculate_divy") /\ Len(cargs.div_history) > 0) =>
        LET h == cargs.div_history
            annualized ==
                IF Len(h) < cargs.frequency
                THEN QMul(Amount(h, Len(h)), F(cargs.frequency))
                ELSE SumFrom(h, Len(h) - cargs.frequency + 1)
        IN  cres = Ok(QMul(QDiv(annualized, cargs.share_price), F(100)))

\* a short history whose payments differ, approximated from the latest one
C6_Witness ==
    /\ CalcDone("calculate_divy")
    /\ Len(cargs.div_history) >= 2 /\ Len(cargs.div_history) < cargs.frequency
    /\ Amount(cargs.div_history, 1) # Amount(cargs.div_history, Len(cargs.div_history))
    /\ cres.ok /\ IsFinite(cres.val) /\ cres.val # F(0)

\* C7: calculate_divy fails (EmptyHistory) whenever the history has zero entries,
\* for every price and every frequency, frequency 0 included.
C7_EmptyHistoryFails ==
    (CalcDone("calculate_divy") /\ Len(cargs.div_history) = 0) => ~cres.ok

\* the mean of (next/prev - 1) * 100 over the consecutive pairs of h
RECURSIVE SumChanges(_, _)
SumChanges(h, i) ==
    IF i >= Len(h) THEN F(0)
    ELSE QAdd(SumChanges(h, i + 1),
              QMul(QSub(QDiv(Amount(h, i + 1), Amount(h, i)), F(1)), F(100)))

\* C8: calculate_dgr fails (InsufficientHistory) whenever the history has fewer
\* than 2 entries, and returns the arithmetic mean of (next/prev - 1) * 100 over the
\* consecutive pairs only when at least 2 entries exist.
C8_DgrNeedsTwoEntries ==
    CalcDone("calculate_dgr") =>
        IF Len(cargs.div_history) < 2 THEN ~cres.ok
        ELSE cres = Ok(QDiv(SumChanges(cargs.div_history, 1),
                            F(Len(cargs.div_history) - 1)))

\* C9: calculate_payout_ratio returns div * num_shares / net_value * 100 when
\* net_value is non-zero and a DivisionByZero error, never an Ok value, when it is zero.
C9_PayoutRatioDivisionByZero ==
    CalcDone("calculate_payout_ratio") =>
        IF cargs.net_value # F(0)
        THEN cres = Ok(QMul(QDiv(QMul(cargs.div, cargs.num_shares), cargs.net_value),
                            F(100)))
        ELSE ~cres.ok

----------------------------------------------------------------------------
(* Claims about load_list (specification LoadSpec) *)

\* the slot a data cell stands for in a column of the given dtype: its value
\* when it is of the column's kind, a missing slot otherwise
SlotOf(cell, dtype) ==
    IF dtype = "f64" /\ cell.kind \in {"Float", "DateTime"} THEN Some(F(cell.v))
    ELSE IF dtype = "str" /\ cell.kind = "String" /\ cell.v # 0 THEN Some(Str(cell.v))
    ELSE None

\* every column has one slot per data row, and slot r stands for the cell of
\* data row r (an empty text may be kept as such or as a missing slot)
RowAligned(table) ==
    \A a \in 1..Len(table) :
        /\ Len(table[a].values) = Len(sheet)
        /\ \A r \in 1..Len(sheet) :
              LET cell == sheet[r][table[a].idx + 1]
              IN  \/ table[a].values[r] = SlotOf(cell, table[a].dtype)
                  \/ /\ table[a].dtype = "str" /\ cell.kind = "String"
                     /\ table[a].values[r] = Some(Str(cell.v))

\* C10: load_list either fails with the table-construction error or returns a
\* Table in which every column has exactly N slots, N the number of data rows, the
\* slot at row r coming from the cell of data row r (a cell that contributes no
\* value leaves a missing slot, it never shifts later rows up).
C10_LoadedTableRowAligned ==
    lpc = "done" =>
        \/ lres = Err("Error: Could not create DataFrame")
        \/ lres.ok /\ RowAligned(lres.val)

\* C11: the columns of the Table load_list returns stand in the order in which
\* their labels stand in the header row, whatever mix of numeric and text columns.
C11_ColumnsInHeaderOrder ==
    (lpc = "done" /\ lres.ok) =>
        \A a, b \in 1..Len(lres.val) :
            a < b => lres.val[a].idx < lres.val[b].idx

\* C13: the first non-empty cell seen at a column index fixes the column as numeric
\* or text: after any sequence of data cells no column index is held both as a
\* numeric and as a text column.
C13_ColumnTypeFixed ==
    DOMAIN fseries \cap DOMAIN sseries = {}

\* the label of a header cell: its text, or "Blended" for an empty cell
HasLabel(c) == c.kind \in {"String", "Empty"}

LabelOf(c) == IF c.kind = "String" THEN Str(c.v) ELSE Blended

\* C14: the column built from the data cells at sheet column index k is named with
\* the label of the header cell at index k (its text, or "Blended" for an empty
\* cell); a header cell of another kind never shifts the names of the columns to
\* its right, and every column index that received a data cell has a name.
C14_ColumnNamedByItsHeaderCell ==
    lpc = "done" =>
        /\ "panic" \notin DOMAIN lres
        /\ lres.ok =>
             \A a \in 1..Len(lres.val) :
                 LET k == lres.val[a].idx + 1
                 IN  IF HasLabel(categories[k])
                     THEN lres.val[a].name = LabelOf(categories[k])
                     ELSE \A j \in (k + 1)..Len(categories) :
                             HasLabel(categories[j])
                                 => lres.val[a].name # LabelOf(categories[j])

----------------------------------------------------------------------------
(* Claims about print_summary and main (specification MainSpec) *)

ReportColumns ==
    {"Symbol", "Company", "Current Div", "Div Yield", "Price", "Annualized", "CF/Share"}

SymbolNotFound == Err("Company symbol not present in selected List")

\* no row of table d has symbol s
NoRowOf(d, s) == \A i \in 1..height(d) : d.rows[i]["Symbol"] # Some(s)

\* C12: on a table holding all columns the report needs, print_summary
\* returns the error 'Company symbol not present in selected List' if and
\* only if a symbol filter was given and no row's Symbol equals it; without
\* a filter it never returns that error, however many rows the table has.
C12_SymbolNotFoundIffFilterMisses ==
    \A k \in 1..Len(pcall) :
        ReportColumns \subseteq pcall[k].df.columns =>
            (pres = SymbolNotFound
                <=> /\ IsSome(pcall[k].symbol)
                    /\ NoRowOf(pcall[k].df, Unwrap(pcall[k].symbol)))

\* the lookup of symbol s in the loaded table succeeds
Found(s) == ReportColumns \subseteq data.columns /\ ~NoRowOf(data, s)

\* the position in args.company of the first symbol whose lookup fails,
\* Len(company) + 1 when every lookup succeeds
FirstFailing ==
    LET failing == {i \in 1..Len(company) : ~Found(company[i])}
    IN  IF failing = {} THEN Len(company) + 1
        ELSE CHOOSE i \in failing : \A j \in failing : i <= j

\* t is a summary of symbol s: the rows of the loaded table that carry s
IsSummaryOf(t, s) ==
    /\ height(t) = Cardinality({i \in 1..height(data) : data.rows[i]["Symbol"] = Some(s)})
    /\ height(t) > 0
    /\ \A i \in 1..height(t) : t.rows[i]["Symbol"] = Some(s)

\* C15: with company symbols supplied, main looks them up in the order
\* given: the summaries printed are those of the symbols before the first
\* failing one, in that order; nothing is printed for the failing symbol or
\* any later one, and the run ends with the failure of that lookup.
C15_LookupStopsAtFirstFailure ==
    company # <<>> =>
        /\ Len(stdout) <= FirstFailing - 1
        /\ \A i \in 1..Len(stdout) : IsSummaryOf(stdout[i], company[i])
        /\ mpc = "done" =>
              /\ Len(stdout) = FirstFailing - 1
              /\ mres.ok <=> FirstFailing > Len(company)
              /\ FirstFailing <= Len(company) =>
                    /\ pcall = Some([df |-> data,
                                     symbol |-> Some(company[FirstFailing])])
                    /\ mres = pres

\* a symbol is summarised, the next one fails, and a symbol that is in the
\* table stands after it
C15_Witness ==
    /\ mpc = "done" /\ Len(company) = 3
    /\ FirstFailing = 2 /\ Found(company[3])
    /\ Len(stdout) = 1 /\ ~mres.ok
====
